---- MODULE Spec2Model ----
(***************************************************************************)
(* Plottable.Table (src/src/table.ts): a grid of Components with per-row   *)
(* and per-column weights, minimum-size aggregation and proportional       *)
(* distribution of the free space.                                         *)
(*                                                                         *)
(* JavaScript arrays are modelled as sequences (index i of the code is     *)
(* index i+1 here).  Array holes / undefined and null are kept apart from  *)
(* numbers, and d3.transpose / d3.zip truncate to the shortest input, as    *)
(* d3 v3 does.  Numbers produced by the divisions of calcProportionalSpace *)
(* are exact rationals.                                                    *)
(***************************************************************************)
EXTENDS Integers, Sequences, FiniteSets, TLC

\* ------------------------------------------------------------------ bounds
\* rows of the constructor's argument
MaxInitRows == 2
\* largest row / column index passed to addComponent, rowWeight, colWeight
MaxIndex == 0
\* calls made on the Table after its construction
MaxOps == 2

\* ------------------------------------------------------------ input values
\* explicit weights, paddings, available sizes and the offset passed in calls
Weights == {0, 1}
Paddings == {0, 1}
AvailableSizes == {0, 2}
Offsets == {<<1, 2>>}

\* ------------------------------------------------------- values of the code
\* null in a weight vector (table.ts:33,193,203)
Null == -1
\* an array hole / undefined in a weight vector (table.ts:140,153,202)
Hole == -2
\* d3.max of an empty array is undefined (table.ts:163,175)
UndefMin == -3

Max(a, b) == IF a >= b THEN a ELSE b
Min(a, b) == IF a <= b THEN a ELSE b

RECURSIVE GCD(_, _)
GCD(a, b) == IF b = 0 THEN a ELSE GCD(b, a % b)

\* JavaScript numbers: an exact rational, NaN, or undefined
Num(n, d) == LET g == GCD(n, d) IN [k |-> "num", n |-> n \div g, d |-> d \div g]
NaN == [k |-> "NaN", n |-> 0, d |-> 1]
Undef == [k |-> "undefined", n |-> 0, d |-> 1]
IntVal(n) == Num(n, 1)

\* a + b of JavaScript: undefined or NaN on either side gives NaN
Plus(a, b) ==
  IF a.k = "num" /\ b.k = "num"
  THEN Num(a.n * b.d + b.n * a.d, a.d * b.d)
  ELSE NaN

\* array[i] with a 0-based index: undefined outside the array
At(arr, i) == IF i + 1 \in 1..Len(arr) THEN arr[i + 1] ELSE Undef

\* a cached minimum as a JavaScript value
MinVal(m) == IF m = UndefMin THEN Undef ELSE IntVal(m)

\* ------------------------------------------------------------- components
\* "P" is the base Component, used as the placeholder; "A" and "B" are
\* leaf components of two subclasses.
RealComponents == {"A", "B"}
Components == RealComponents \cup {"P"}
NullCell == "null"

CompColMinimum(c) == CASE c = "A" -> 1 [] c = "B" -> 0 [] OTHER -> 0
CompRowMinimum(c) == CASE c = "A" -> 0 [] c = "B" -> 1 [] OTHER -> 0
CompIsFixedWidth(c) == c \in {"P", "A"}
CompIsFixedHeight(c) == c \in {"P", "B"}

\* ------------------------------------------------------------------- state
VARIABLES
  rows,            \* this.rows
  nRows, nCols,    \* this.nRows, this.nCols
  rowWeights, colWeights,
  rowPadding, colPadding,
  rowMinimums, colMinimums,
  element,         \* this.element: "none" until anchor
  xOffset, yOffset, availableWidth, availableHeight,
  childLayout,     \* what each cell's component last received in computeLayout
  usedRowWeights, usedColWeights,   \* locals rowWeights / colWeights of computeLayout
  rowHeights, colWidths,            \* locals rowHeights / colWidths of computeLayout
  ret,             \* the last call and its outcome
  nOps

gridVars == <<rows, nRows, nCols, rowWeights, colWeights>>
padVars == <<rowPadding, colPadding>>
ownLayoutVars == <<xOffset, yOffset, availableWidth, availableHeight>>
minVars == <<rowMinimums, colMinimums>>
localVars == <<usedRowWeights, usedColWeights, rowHeights, colWidths>>
vars == <<rows, nRows, nCols, rowWeights, colWeights, rowPadding, colPadding,
          rowMinimums, colMinimums, element, xOffset, yOffset, availableWidth,
          availableHeight, childLayout, usedRowWeights, usedColWeights,
          rowHeights, colWidths, ret, nOps>>

NoElement == "none"
NoLayout == [called |-> FALSE, x |-> Undef, y |-> Undef, w |-> Undef, h |-> Undef]

Call(op, res, a, b, c) == [op |-> op, res |-> res, a |-> a, b |-> b, c |-> c]

\* ------------------------------------------------------------ d3 helpers
\* d3.max(array): undefined for an empty array
RECURSIVE SeqMax(_)
SeqMax(s) == IF Len(s) = 1 THEN s[1] ELSE Max(s[1], SeqMax(Tail(s)))
D3Max(s) == IF Len(s) = 0 THEN UndefMin ELSE SeqMax(s)

\* d3.sum(array): entries that are not numbers (undefined, holes) are skipped
RECURSIVE D3Sum(_)
D3Sum(s) ==
  IF Len(s) = 0 THEN 0
  ELSE (IF s[1] >= 0 THEN s[1] ELSE 0) + D3Sum(Tail(s))

\* the shortest row of a matrix
RECURSIVE MinLen(_)
MinLen(m) == IF Len(m) = 1 THEN Len(m[1]) ELSE Min(Len(m[1]), MinLen(Tail(m)))

\* d3.transpose(matrix) = d3.zip of its rows: as long as the shortest row
D3Transpose(m) ==
  IF Len(m) = 0 THEN <<>>
  ELSE [j \in 1..MinLen(m) |-> [i \in 1..Len(m) |-> m[i][j]]]

\* ------------------------------------------------------------ constructor
CleanOutNulls(c) == IF c = NullCell THEN "P" ELSE c

\* the rows a constructor argument is made of: no cell, an empty (null) cell,
\* a component next to an empty cell
InitRowChoices == {<<>>, <<NullCell>>, <<"A", NullCell>>}
SeqsUpTo(S, n) == UNION {[1..k -> S] : k \in 0..n}
InitInputs == SeqsUpTo(InitRowChoices, MaxInitRows)

RowLens(m) == [i \in 1..Len(m) |-> Len(m[i])]

Constructor(input) ==
  LET cleaned == [i \in 1..Len(input) |->
                    [j \in 1..Len(input[i]) |-> CleanOutNulls(input[i][j])]]
  IN
  /\ rows = cleaned
  /\ nRows = Len(cleaned)
  /\ nCols = IF Len(cleaned) > 0 THEN SeqMax(RowLens(cleaned)) ELSE 0
  /\ rowWeights = [i \in 1..Len(cleaned) |-> Null]
  /\ colWeights = [j \in 1..Len(D3Transpose(cleaned)) |-> Null]
  /\ childLayout = [i \in 1..Len(cleaned) |-> [j \in 1..Len(cleaned[i]) |-> NoLayout]]

Init ==
  /\ \E input \in InitInputs : Constructor(input)
  /\ rowPadding = 0
  /\ colPadding = 0
  /\ rowMinimums = <<>>
  /\ colMinimums = <<>>
  /\ element = NoElement
  /\ xOffset = Undef
  /\ yOffset = Undef
  /\ availableWidth = Undef
  /\ availableHeight = Undef
  /\ usedRowWeights = <<>>
  /\ usedColWeights = <<>>
  /\ rowHeights = <<>>
  /\ colWidths = <<>>
  /\ ret = Call("new", "ok", 0, 0, "")
  /\ nOps = 0

\* ----------------------------------------------------------- array writes
\* array[i] = v with a 0-based index: writing past the end leaves holes
ArraySet(arr, i, v) ==
  [k \in 1..Max(Len(arr), i + 1) |->
     IF k = i + 1 THEN v ELSE IF k <= Len(arr) THEN arr[k] ELSE Hole]

\* array[i] === undefined
IsUndefinedAt(arr, i) == i + 1 > Len(arr) \/ arr[i + 1] = Hole

\* -------------------------------------------------------- padTableToSize
\* the rows after padTableToSize(r, c): missing rows are created, and every
\* row with index below r is filled with placeholders up to c slots
PadRows(m, r, c) ==
  [i \in 1..Max(Len(m), r) |->
     LET old == IF i <= Len(m) THEN m[i] ELSE <<>> IN
     IF i <= r
     THEN [j \in 1..Max(Len(old), c) |-> IF j <= Len(old) THEN old[j] ELSE "P"]
     ELSE old]

\* rowWeights[i] = null for every created row
RECURSIVE PadRowWeights(_, _, _, _)
PadRowWeights(w, m, r, i) ==
  IF i >= r THEN w
  ELSE PadRowWeights(IF i + 1 > Len(m) THEN ArraySet(w, i, Null) ELSE w, m, r, i + 1)

\* colWeights[j] = null wherever it is undefined
RECURSIVE PadColWeights(_, _, _)
PadColWeights(w, c, j) ==
  IF j >= c THEN w
  ELSE PadColWeights(IF IsUndefinedAt(w, j) THEN ArraySet(w, j, Null) ELSE w, c, j + 1)

\* the child bookkeeping follows the grid: a created cell was never laid out
PadLayout(l, m) ==
  [i \in 1..Len(m) |->
     [j \in 1..Len(m[i]) |->
        IF i <= Len(l) /\ j <= Len(l[i]) THEN l[i][j] ELSE NoLayout]]

\* ----------------------------------------------------------- addComponent
\* the anchoring check left out
IsAnchoredNever == FALSE

\* this.element != null
IsAnchored == element # NoElement

\* the occupancy check left out: every cell counts as free
IsPlaceholderAlways(c) == TRUE

\* currentComponent.constructor.name === "Component"
IsPlaceholder(c) == c = "P"

\* this.nRows = Math.max(row, this.nRows)
GrownRows(row) == Max(row, nRows)

\* the column count taken from the call alone, Math.max forgotten
GrownColsNoMax(col) == col

\* this.nCols = Math.max(col, this.nCols)
GrownCols(col) == Max(col, nCols)

AddComponent(row, col, component) ==
  /\ nOps < MaxOps
  /\ nOps' = nOps + 1
  /\ UNCHANGED <<padVars, minVars, element, ownLayoutVars, localVars>>
  /\ IF IsAnchored
     THEN /\ ret' = Call("addComponent", "InvalidMutation", row, col, component)
          /\ UNCHANGED <<gridVars, childLayout>>
     ELSE LET nr == GrownRows(row)
              nc == GrownCols(col)
              padded == PadRows(rows, nr + 1, nc + 1)
          IN
          /\ nRows' = nr
          /\ nCols' = nc
          /\ rowWeights' = PadRowWeights(rowWeights, rows, nr + 1, 0)
          /\ colWeights' = PadColWeights(colWeights, nc + 1, 0)
          /\ IF IsPlaceholder(padded[row + 1][col + 1])
             THEN /\ rows' = [padded EXCEPT ![row + 1][col + 1] = component]
                  /\ ret' = Call("addComponent", "ok", row, col, component)
             ELSE /\ rows' = padded
                  /\ ret' = Call("addComponent", "CellOccupied", row, col, component)
          /\ childLayout' = PadLayout(childLayout, padded)

\* ----------------------------------------------------------------- anchor
Anchor ==
  /\ nOps < MaxOps
  /\ nOps' = nOps + 1
  /\ element' = "svg"
  /\ ret' = Call("anchor", "ok", 0, 0, "")
  /\ UNCHANGED <<gridVars, padVars, minVars, ownLayoutVars, localVars, childLayout>>

\* ---------------------------------------------------------------- padding
Padding(rp, cp) ==
  /\ nOps < MaxOps
  /\ nOps' = nOps + 1
  /\ rowPadding' = rp
  /\ colPadding' = cp
  /\ ret' = Call("padding", "ok", rp, cp, "")
  /\ UNCHANGED <<gridVars, minVars, element, ownLayoutVars, localVars, childLayout>>

\* ---------------------------------------------------- rowWeight / colWeight
RowWeight(index, weight) ==
  /\ nOps < MaxOps
  /\ nOps' = nOps + 1
  /\ rowWeights' = ArraySet(rowWeights, index, weight)
  /\ ret' = Call("rowWeight", "ok", index, weight, "")
  /\ UNCHANGED <<rows, nRows, nCols, colWeights, padVars, minVars, element,
                 ownLayoutVars, localVars, childLayout>>

ColWeight(index, weight) ==
  /\ nOps < MaxOps
  /\ nOps' = nOps + 1
  /\ colWeights' = ArraySet(colWeights, index, weight)
  /\ ret' = Call("colWeight", "ok", index, weight, "")
  /\ UNCHANGED <<rows, nRows, nCols, rowWeights, padVars, minVars, element,
                 ownLayoutVars, localVars, childLayout>>

\* ------------------------------------------------ rowMinimum / colMinimum
\* this.rowMinimums = this.rows.map(row => d3.max(row, r => r.rowMinimum()))
RowMinimumsOf(m) ==
  [i \in 1..Len(m) |-> D3Max([j \in 1..Len(m[i]) |-> CompRowMinimum(m[i][j])])]

\* this.colMinimums = cols.map(col => d3.max(col, r => r.colMinimum()))
ColMinimumsOf(m) ==
  LET cols == D3Transpose(m) IN
  [j \in 1..Len(cols) |-> D3Max([i \in 1..Len(cols[j]) |-> CompColMinimum(cols[j][i])])]

\* the value rowMinimum() returns
RowMinimumTotal(m, rp) == D3Sum(RowMinimumsOf(m)) + rp * (Len(m) - 1)

\* the value colMinimum() returns
ColMinimumTotal(m, cp) == D3Sum(ColMinimumsOf(m)) + cp * (Len(D3Transpose(m)) - 1)

\* ------------------------------------------------- calcComponentWeights
\* bools.reduce((a, b) => a && b): throws on an empty array
ReduceThrows(group) == Len(group) = 0
ReduceAnd(bools) == \A k \in 1..Len(bools) : bools[k]

Fixities(group, axis) ==
  [k \in 1..Len(group) |->
     IF axis = "height" THEN CompIsFixedHeight(group[k]) ELSE CompIsFixedWidth(group[k])]

\* a truthiness test instead of the null test: an explicit 0 counts as unset
IsSetWeightTruthy(w) == w > 0

\* w != null: the weight was set explicitly
IsSetWeight(w) == w # Null

\* one entry of setWeights.map(...); holes are skipped by map
ResolveWeight(w, group, axis) ==
  IF w = Hole THEN Hole
  ELSE IF IsSetWeight(w) THEN w
  ELSE IF ReduceAnd(Fixities(group, axis)) THEN 0 ELSE 1

\* the callback throws where the weight is unset and the group is missing
\* (componentGroups[i] undefined) or empty (reduce of an empty array)
WeightsThrow(setWeights, groups) ==
  \E i \in 1..Len(setWeights) :
    /\ setWeights[i] = Null
    /\ (i > Len(groups) \/ ReduceThrows(groups[i]))

CalcComponentWeights(setWeights, groups, axis) ==
  [i \in 1..Len(setWeights) |->
     ResolveWeight(setWeights[i], IF i <= Len(groups) THEN groups[i] ELSE <<>>, axis)]

\* ------------------------------------------------ calcProportionalSpace
\* one entry of the result; a hole of weights stays a hole (undefined)
EvenShare(freeSpace, numGroups) == Num(freeSpace, numGroups)
WeightedShare(freeSpace, w, weightSum) == Num(freeSpace * w, weightSum)

CalcProportionalSpace(weights, freeSpace) ==
  LET weightSum == D3Sum(weights) IN
  [i \in 1..Len(weights) |->
     IF weights[i] = Hole THEN Undef
     ELSE IF weightSum = 0 THEN EvenShare(freeSpace, Len(weights))
     ELSE WeightedShare(freeSpace, weights[i], weightSum)]

\* d3.zip(space, minimums).map(sumPair): as long as the shorter of the two
ZipSum(space, minimums) ==
  [i \in 1..Min(Len(space), Len(minimums)) |-> Plus(space[i], MinVal(minimums[i]))]

\* the running offset before index n: sizes[k] + padding for every k < n
RECURSIVE OffsetBefore(_, _, _)
OffsetBefore(sizes, padding, n) ==
  IF n = 0 THEN IntVal(0)
  ELSE Plus(OffsetBefore(sizes, padding, n - 1),
            Plus(At(sizes, n - 1), IntVal(padding)))

\* ---------------------------------------------------------- computeLayout
InsufficientSpace(freeWidth, freeHeight) == freeWidth < 0 \/ freeHeight < 0

\* what every cell's component receives: its offset and its size
ChildLayouts(m, widths, heights, cp, rp) ==
  [i \in 1..Len(m) |->
     [j \in 1..Len(m[i]) |->
        [called |-> TRUE,
         x |-> OffsetBefore(widths, cp, j - 1),
         y |-> OffsetBefore(heights, rp, i - 1),
         w |-> At(widths, j - 1),
         h |-> At(heights, i - 1)]]]

\* the one value of an expression, evaluated once
The(v) == {v}

ComputeLayout(x, y, aw, ah) ==
  \E cols \in The(D3Transpose(rows)) :
  \E cmins \in The(ColMinimumsOf(rows)), rmins \in The(RowMinimumsOf(rows)) :
  \E freeWidth \in The(aw - ColMinimumTotal(rows, colPadding)),
     freeHeight \in The(ah - RowMinimumTotal(rows, rowPadding)) :
  /\ nOps < MaxOps
  /\ nOps' = nOps + 1
  /\ UNCHANGED <<gridVars, padVars, element>>
  \* super.computeLayout records the offset and the available size
  /\ xOffset' = IntVal(x)
  /\ yOffset' = IntVal(y)
  /\ availableWidth' = IntVal(aw)
  /\ availableHeight' = IntVal(ah)
  /\ colMinimums' = cmins
  /\ rowMinimums' = rmins
  /\ IF InsufficientSpace(freeWidth, freeHeight)
     THEN /\ ret' = Call("computeLayout", "InsufficientSpace", aw, ah, "")
          /\ UNCHANGED <<localVars, childLayout>>
     ELSE IF WeightsThrow(rowWeights, rows)
     THEN /\ ret' = Call("computeLayout", "TypeError", aw, ah, "")
          /\ UNCHANGED <<localVars, childLayout>>
     ELSE IF WeightsThrow(colWeights, cols)
     THEN /\ ret' = Call("computeLayout", "TypeError", aw, ah, "")
          /\ usedRowWeights' = CalcComponentWeights(rowWeights, rows, "height")
          /\ UNCHANGED <<usedColWeights, rowHeights, colWidths, childLayout>>
     ELSE \E rw \in The(CalcComponentWeights(rowWeights, rows, "height")),
             cw \in The(CalcComponentWeights(colWeights, cols, "width")) :
          \E rh \in The(ZipSum(CalcProportionalSpace(rw, freeHeight), rmins)),
             cwd \in The(ZipSum(CalcProportionalSpace(cw, freeWidth), cmins)) :
          /\ ret' = Call("computeLayout", "ok", aw, ah, "")
          /\ usedRowWeights' = rw
          /\ usedColWeights' = cw
          /\ rowHeights' = rh
          /\ colWidths' = cwd
          /\ childLayout' = ChildLayouts(rows, cwd, rh, colPadding, rowPadding)

\* ------------------------------------------------- isFixedWidth / Height
\* fixedSpace: all(groups.map(group => all(group.map(accessor))))
FixedSpaceThrows(groups) ==
  Len(groups) = 0 \/ \E i \in 1..Len(groups) : ReduceThrows(groups[i])

FixedSpace(groups, axis) ==
  \A i \in 1..Len(groups) : ReduceAnd(Fixities(groups[i], axis))

FixedResult(groups, axis) ==
  IF FixedSpaceThrows(groups) THEN "TypeError"
  ELSE IF FixedSpace(groups, axis) THEN "true" ELSE "false"

IsFixedWidth ==
  /\ nOps < MaxOps
  /\ nOps' = nOps + 1
  /\ ret' = Call("isFixedWidth", FixedResult(D3Transpose(rows), "width"), 0, 0, "")
  /\ UNCHANGED <<gridVars, padVars, minVars, element, ownLayoutVars, localVars,
                 childLayout>>

IsFixedHeight ==
  /\ nOps < MaxOps
  /\ nOps' = nOps + 1
  /\ ret' = Call("isFixedHeight", FixedResult(rows, "height"), 0, 0, "")
  /\ UNCHANGED <<gridVars, padVars, minVars, element, ownLayoutVars, localVars,
                 childLayout>>

\* ---------------------------------------------------------- specification
Next ==
  \/ \E row \in 0..MaxIndex, col \in 0..MaxIndex, c \in RealComponents :
       AddComponent(row, col, c)
  \/ Anchor
  \/ \E rp \in Paddings, cp \in Paddings : Padding(rp, cp)
  \/ \E i \in 0..MaxIndex, w \in Weights : RowWeight(i, w)
  \/ \E i \in 0..MaxIndex, w \in Weights : ColWeight(i, w)
  \/ \E o \in Offsets, aw \in AvailableSizes, ah \in AvailableSizes :
       ComputeLayout(o[1], o[2], aw, ah)
  \/ IsFixedWidth
  \/ IsFixedHeight

Spec == Init /\ [][Next]_vars

\* ============================================================ properties
\* the grid as the specification describes it: one column per slot index of
\* the longest row, minimums taken over the cells a row / column really has
NumRows == Len(rows)
NumCols == IF Len(rows) = 0 THEN 0 ELSE SeqMax(RowLens(rows))
RowCells(i) == {rows[i][j] : j \in 1..Len(rows[i])}
ColumnCells(j) == {rows[i][j] : i \in {r \in 1..Len(rows) : j <= Len(rows[r])}}
SetMax(S) == IF S = {} THEN 0 ELSE CHOOSE m \in S : \A n \in S : n <= m
ExpectedRowMin(i) == SetMax({CompRowMinimum(c) : c \in RowCells(i)})
ExpectedColMin(j) == SetMax({CompColMinimum(c) : c \in ColumnCells(j)})

RECURSIVE SumTo(_, _)
SumTo(F(_), n) == IF n = 0 THEN 0 ELSE F(n) + SumTo(F, n - 1)
ExpectedMinHeight == SumTo(ExpectedRowMin, NumRows) + rowPadding * (NumRows - 1)
ExpectedMinWidth == SumTo(ExpectedColMin, NumCols) + colPadding * (NumCols - 1)

RECURSIVE SumVals(_)
SumVals(s) == IF Len(s) = 0 THEN IntVal(0) ELSE Plus(s[1], SumVals(Tail(s)))
AtLeast(v, m) == v.k = "num" /\ v.n >= m * v.d

IsLayout == ret.op = "computeLayout"
LayoutOk == IsLayout /\ ret.res = "ok"
Rectangular == \A i, k \in 1..Len(rows) : Len(rows[i]) = Len(rows[k])

C2_GridMatchesDims ==
  /\ Len(rows) = nRows
  /\ \A i \in 1..Len(rows) :
       /\ Len(rows[i]) = nCols
       /\ \A j \in 1..Len(rows[i]) : rows[i][j] \in Components

\* C3: once anchored, every addComponent fails with InvalidMutation and
\* leaves the grid, its dimensions and the weight vectors as they were.
C3_AnchoredPlaceFails ==
  [][(element # NoElement /\ ret'.op = "addComponent")
       => (ret'.res = "InvalidMutation" /\ UNCHANGED gridVars)]_vars

\* an addComponent rejected after anchoring, aimed at a row outside the grid
C3_Witness ==
  /\ element # NoElement
  /\ ret.op = "addComponent"
  /\ ret.res = "InvalidMutation"
  /\ ret.a >= Len(rows)

\* C4: before anchoring, addComponent on a cell holding a real component
\* fails with CellOccupied and the cell keeps its component.
C4_OccupiedPlaceFails ==
  [][(/\ element = NoElement
      /\ ret'.op = "addComponent"
      /\ ret'.a + 1 \in 1..Len(rows)
      /\ ret'.b + 1 \in 1..Len(rows[ret'.a + 1])
      /\ rows[ret'.a + 1][ret'.b + 1] \in RealComponents)
       => (/\ ret'.res = "CellOccupied"
           /\ rows'[ret'.a + 1][ret'.b + 1] = rows[ret'.a + 1][ret'.b + 1])]_vars

\* a rejected attempt to put another component on an occupied cell
C4_Witness ==
  /\ ret.op = "addComponent"
  /\ ret.res = "CellOccupied"
  /\ rows[ret.a + 1][ret.b + 1] \in RealComponents
  /\ rows[ret.a + 1][ret.b + 1] # ret.c

\* C5: computeLayout fails with InsufficientSpace exactly when the available
\* width or height is below the total minimum; at exactly the total minimum
\* it succeeds and every row / column gets its minimum.
C5_InsufficientExactly ==
  IsLayout =>
    /\ (ret.res = "InsufficientSpace")
         <=> (ret.a < ExpectedMinWidth \/ ret.b < ExpectedMinHeight)
    /\ (ret.a = ExpectedMinWidth /\ ret.b = ExpectedMinHeight) =>
         /\ ret.res = "ok"
         /\ \A i \in 1..NumRows : At(rowHeights, i - 1) = IntVal(ExpectedRowMin(i))
         /\ \A j \in 1..NumCols : At(colWidths, j - 1) = IntVal(ExpectedColMin(j))

\* C6: a computeLayout that fails with InsufficientSpace calls no child and
\* leaves the offset and available size recorded before it as they were.
C6_FailedLayoutTouchesNothing ==
  [][(/\ ret'.op = "computeLayout"
      /\ ret'.res = "InsufficientSpace"
      /\ availableWidth # Undef)
       => UNCHANGED <<childLayout, xOffset, yOffset, availableWidth, availableHeight>>]_vars

\* C7: the weight computeLayout uses for a row (column) is the explicit
\* weight, even 0, else 0 when every component of it is fixed in that axis
\* and 1 otherwise; with all weights unset and free height, an all-fixed row
\* gets no surplus when another row has a non-fixed component.
C7_WeightResolution ==
  LayoutOk =>
    /\ \A i \in 1..Len(rowWeights) :
         rowWeights[i] # Hole =>
           usedRowWeights[i] =
             IF rowWeights[i] >= 0 THEN rowWeights[i]
             ELSE IF \A c \in RowCells(i) : CompIsFixedHeight(c) THEN 0 ELSE 1
    /\ \A j \in 1..Len(colWeights) :
         colWeights[j] # Hole =>
           usedColWeights[j] =
             IF colWeights[j] >= 0 THEN colWeights[j]
             ELSE IF \A c \in ColumnCells(j) : CompIsFixedWidth(c) THEN 0 ELSE 1
    /\ ((\A i \in 1..Len(rowWeights) : rowWeights[i] = Null)
        /\ ret.b > ExpectedMinHeight) =>
         \A i \in 1..NumRows :
           ((\A c \in RowCells(i) : CompIsFixedHeight(c))
            /\ (\E k \in 1..NumRows : \E c \in RowCells(k) : ~CompIsFixedHeight(c)))
             => At(rowHeights, i - 1) = IntVal(ExpectedRowMin(i))

\* a layout that used an explicit weight 0 for a row holding a component
\* that is not fixed-height
C7_Witness ==
  /\ LayoutOk
  /\ \E i \in 1..NumRows :
       /\ rowWeights[i] = 0
       /\ usedRowWeights[i] = 0
       /\ \E c \in RowCells(i) : ~CompIsFixedHeight(c)

\* C8: isFixedHeight / isFixedWidth return the AND over all cells of the
\* grid, for every grid including the one with no rows.
C8_FixedIsAndOverCells ==
  /\ ret.op = "isFixedHeight" =>
       ret.res = IF \A i \in 1..NumRows : \A c \in RowCells(i) : CompIsFixedHeight(c)
                 THEN "true" ELSE "false"
  /\ ret.op = "isFixedWidth" =>
       ret.res = IF \A i \in 1..NumRows : \A c \in RowCells(i) : CompIsFixedWidth(c)
                 THEN "true" ELSE "false"

\* C9: a successful computeLayout on a non-empty grid gives every row at
\* least its minimum and the row heights plus the paddings between them add
\* up to the available height; the same for the columns.
C9_WholeFreeSpaceDistributed ==
  (LayoutOk /\ NumRows > 0 /\ NumCols > 0) =>
    /\ Len(rowHeights) = NumRows
    /\ Len(colWidths) = NumCols
    /\ \A i \in 1..NumRows : AtLeast(At(rowHeights, i - 1), ExpectedRowMin(i))
    /\ \A j \in 1..NumCols : AtLeast(At(colWidths, j - 1), ExpectedColMin(j))
    /\ Plus(SumVals(rowHeights), IntVal(rowPadding * (NumRows - 1))) = IntVal(ret.b)
    /\ Plus(SumVals(colWidths), IntVal(colPadding * (NumCols - 1))) = IntVal(ret.a)

\* C10: in every reachable state the row weight vector has one entry per
\* grid row and the column weight vector one per grid column, each unset or
\* an explicit number.
C10_WeightVectorsMatchGrid ==
  /\ Len(rowWeights) = NumRows
  /\ Len(colWeights) = NumCols
  /\ \A i \in 1..Len(rowWeights) : rowWeights[i] = Null \/ rowWeights[i] >= 0
  /\ \A j \in 1..Len(colWeights) : colWeights[j] = Null \/ colWeights[j] >= 0
====
